---- MODULE Spec2Model ----
(***************************************************************************)
(* Model of CodespaceBot (src/v2.py): the MongoDB-backed credential store  *)
(* (load_tokens, save_token, delete_token), the GitHub client              *)
(* (get_codespaces_list, toggle_codespace) and the add-credential handler  *)
(* (handle_token).                                                         *)
(*                                                                         *)
(* A BSON array element is either Null (Python None) or Some(v).           *)
(* A credential string is a tuple of one-character strings.                *)
(***************************************************************************)
EXTENDS Integers, Sequences, FiniteSets, TLC

\* ------------------------------------------------------------------ bounds
\* array elements the collection holds at most, over all records
MaxLen == 3
\* readings the clock advances through
MaxClock == 1
\* polling failures run() is followed through
MaxFailures == 2

ChatIds == {42, 7}
Procs == {1, 2}
MainProc == CHOOSE p \in Procs : \A q \in Procs : p <= q

Whitespace == {" ", "\n"}
Texts == {<<"a">>, <<" ", "a", "\n">>, <<"b">>, <<"b", " ">>}
Indexes == 0..MaxLen
UserNames == {"akriel"}
CodespaceNames == {"env-1", "env-2"}
Actions == {"start", "stop"}
StatusCodes == {199, 200, 204, 299, 300, 401, 500}

\* ------------------------------------------------------------ BSON values
Null == <<>>
Some(v) == <<v>>

\* --------------------------------------------------- python: str.strip()
RECURSIVE LStrip(_)
LStrip(s) ==
    IF Len(s) > 0 /\ Head(s) \in Whitespace THEN LStrip(Tail(s)) ELSE s

RECURSIVE RStrip(_)
RStrip(s) ==
    IF Len(s) > 0 /\ s[Len(s)] \in Whitespace
    THEN RStrip(SubSeq(s, 1, Len(s) - 1))
    ELSE s

Strip(s) == RStrip(LStrip(s))

Credentials == {Strip(t) : t \in Texts}

\* ------------------------------------------------- exception class tree
ExcParent(cls) ==
    CASE cls = "PyMongoError" -> "Exception"
      [] cls = "ConnectionFailure" -> "PyMongoError"
      [] cls = "AutoReconnect" -> "ConnectionFailure"
      [] cls = "ServerSelectionTimeoutError" -> "AutoReconnect"
      [] cls = "OperationFailure" -> "PyMongoError"
      [] cls = "RequestException" -> "OSError"
      [] cls = "OSError" -> "Exception"
      [] cls = "ConnectionError" -> "RequestException"
      [] cls = "Timeout" -> "RequestException"
      [] cls = "HTTPError" -> "RequestException"
      [] cls = "RequestsJSONDecodeError" -> "RequestException"
      [] cls = "ValueError" -> "Exception"
      [] cls = "AttributeError" -> "Exception"
      [] OTHER -> "BaseException"

RECURSIVE IsSubclass(_, _)
IsSubclass(cls, base) ==
    IF cls = base THEN TRUE
    ELSE IF cls = "BaseException" THEN FALSE
    ELSE IsSubclass(ExcParent(cls), base)

\* an except clause that matches the named class only, not its subclasses
Propagates_exact(exc, handled) ==
    IF exc = "none" \/ exc = handled THEN "none" ELSE exc

\* what "try: ... except <handled>" lets through to the caller
Propagates(exc, handled) ==
    IF exc = "none" \/ IsSubclass(exc, handled) THEN "none" ELSE exc

\* --------------------------------------------------- the tokens collection
NoDoc == [present |-> FALSE, tokens |-> <<>>, timestamps |-> <<>>]

\* outcome of one round trip to MongoDB: was the command applied, and which
\* exception (if any) did the driver raise
StoreOk == [applied |-> TRUE, exc |-> "none"]
StoreFaults ==
    { [applied |-> FALSE, exc |-> "ServerSelectionTimeoutError"],
      [applied |-> TRUE,  exc |-> "AutoReconnect"] }

\* the $push without upsert=True: no record, no change
PushUpsert_noUpsert(doc, token, ts) ==
    IF doc.present
    THEN [doc EXCEPT !.tokens = Append(doc.tokens, Some(token)),
                     !.timestamps = Append(doc.timestamps, Some(ts))]
    ELSE doc

\* a $push with $position 0: the new value goes in front
PushUpsert_prepend(doc, token, ts) ==
    [present |-> TRUE,
     tokens |-> <<Some(token)>> \o doc.tokens,
     timestamps |-> <<Some(ts)>> \o doc.timestamps]

\* $addToSet in place of $push: a value the array holds is not added again
PushUpsert_addToSet(doc, token, ts) ==
    [present |-> TRUE,
     tokens |-> IF \E k \in DOMAIN doc.tokens : doc.tokens[k] = Some(token)
                THEN doc.tokens ELSE Append(doc.tokens, Some(token)),
     timestamps |-> IF \E k \in DOMAIN doc.timestamps :
                          doc.timestamps[k] = Some(ts)
                    THEN doc.timestamps ELSE Append(doc.timestamps, Some(ts))]

\* update_one(..., {"$push": {tokens: t, timestamps: ts}}, upsert=True)
PushUpsert(doc, token, ts) ==
    [present |-> TRUE,
     tokens |-> Append(doc.tokens, Some(token)),
     timestamps |-> Append(doc.timestamps, Some(ts))]

\* the index taken as 1-based
UnsetAt_oneBased(arr, i) ==
    IF i \in DOMAIN arr THEN [arr EXCEPT ![i] = Null] ELSE arr

\* "$unset": {"<array>.<i>": 1}: an existing element becomes null
UnsetAt(arr, i) ==
    IF i + 1 \in DOMAIN arr THEN [arr EXCEPT ![i + 1] = Null] ELSE arr

\* the $unset issued with upsert=True
UnsetBoth_upsert(doc, i) ==
    [present |-> TRUE,
     tokens |-> UnsetAt(doc.tokens, i),
     timestamps |-> UnsetAt(doc.timestamps, i)]

UnsetBoth(doc, i) ==
    IF doc.present
    THEN [doc EXCEPT !.tokens = UnsetAt(doc.tokens, i),
                     !.timestamps = UnsetAt(doc.timestamps, i)]
    ELSE doc

\* "$pull": {"<array>": None}: every null element is removed
IsSet(e) == e # Null
PullNull(arr) == SelectSeq(arr, IsSet)

\* the $pull naming tokens only
PullBoth_tokensOnly(doc) ==
    IF doc.present
    THEN [doc EXCEPT !.tokens = PullNull(doc.tokens)]
    ELSE doc

\* the record deleted once its last token is pulled
PullBoth_dropEmpty(doc) ==
    IF doc.present /\ PullNull(doc.tokens) # <<>>
    THEN [doc EXCEPT !.tokens = PullNull(doc.tokens),
                     !.timestamps = PullNull(doc.timestamps)]
    ELSE NoDoc

PullBoth(doc) ==
    IF doc.present
    THEN [doc EXCEPT !.tokens = PullNull(doc.tokens),
                     !.timestamps = PullNull(doc.timestamps)]
    ELSE doc

\* UpdateResult.upserted_count read in place of modified_count
ModifiedCount_upserted(old, new) ==
    IF new.present /\ ~old.present THEN 1 ELSE 0

\* UpdateResult.modified_count
ModifiedCount(old, new) == IF old # new THEN 1 ELSE 0

\* find_one(...) then: user["tokens"] if user else []
FindTokens(doc) == IF doc.present THEN doc.tokens ELSE <<>>

\* ------------------------------------------------------------ GitHub API
\* What requests.get / requests.post meets: a transport failure (the request
\* raises) or a response with a status code and a body.
Bodies == {"not_json", "json_array", "object_without_key",
           "codespaces_null", "codespaces_empty", "codespaces_one"}
TransportErrors == {"ConnectionError", "Timeout"}
Replies ==
    [kind : TransportErrors, status : {0}, body : {"not_json"}]
      \cup [kind : {"response"}, status : StatusCodes, body : Bodies]

\* the class of the error response.json() raises on a body that is not JSON:
\* requests.exceptions.JSONDecodeError from requests 2.27 on, a plain
\* ValueError subclass before
JSONErrors == {"RequestsJSONDecodeError", "ValueError"}

\* response.raise_for_status()
RaiseForStatus(status) ==
    IF 400 <= status /\ status < 600 THEN "HTTPError" ELSE "none"

\* response.json().get('codespaces', []): <<exception, value>>
JsonGetCodespaces(body, jsonError) ==
    CASE body = "not_json" -> <<jsonError, Null>>
      [] body = "json_array" -> <<"AttributeError", Null>>
      [] body = "object_without_key" -> <<"none", Some(<<>>)>>
      [] body = "codespaces_null" -> <<"none", Null>>
      [] body = "codespaces_empty" -> <<"none", Some(<<>>)>>
      [] body = "codespaces_one" -> <<"none", Some(<<"env-1">>)>>

\* the exception raised inside the try block of get_codespaces_list
ListException(reply, jsonError) ==
    IF reply.kind # "response" THEN reply.kind
    ELSE IF RaiseForStatus(reply.status) # "none"
         THEN RaiseForStatus(reply.status)
    ELSE JsonGetCodespaces(reply.body, jsonError)[1]

\* get_codespaces_list: value is Null for None, Some(list) for a list
GetCodespacesList(reply, jsonError) ==
    LET exc == ListException(reply, jsonError)
    IN [value |-> IF exc = "none"
                  THEN JsonGetCodespaces(reply.body, jsonError)[2]
                  ELSE Null,
        raised |-> Propagates(exc, "RequestException")]

\* the test left out
IsRejected_never(test_response) == FALSE

\* "if not test_response"
IsRejected_falsy(test_response) ==
    test_response = Null \/ test_response = Some(<<>>)

\* handle_token: "if test_response is None"
IsRejected(test_response) == test_response = Null

\* response.ok
StatusIsSuccess_ok(status) == status < 400

\* toggle_codespace: response.status_code // 100 == 2
StatusIsSuccess(status) == status \div 100 = 2

ToggleCodespace(reply) ==
    IF reply.kind # "response"
    THEN [value |-> FALSE, raised |-> Propagates(reply.kind, "RequestException")]
    ELSE [value |-> StatusIsSuccess(reply.status), raised |-> "none"]

\* number of array elements held by the records of the chats in S
RECURSIVE StoredTokens(_, _)
StoredTokens(st, S) ==
    IF S = {} THEN 0
    ELSE LET c == CHOOSE x \in S : TRUE
         IN Len(st[c].tokens) + StoredTokens(st, S \ {c})

\* ------------------------------------------------------------------- state
VARIABLES store, clock, pc, call

\* selection: the environment each chat last selected (Session Selection)
\* awaiting: whether the chat was last asked to send a credential
\* runpc, failures: position of run() and the polling failures it has caught
\* listing: what each caller last listed, for the delete that follows
\* added: every (chat_id, token, timestamp) pushed so far, in order
\* deleted: the delete_token calls begun so far by the racing callers
VARIABLES selection, awaiting, runpc, failures, listing, added, deleted

vars == <<store, clock, pc, call, selection, awaiting, runpc, failures,
          listing, added, deleted>>

\* the state the store methods and the GitHub client do not touch
session == <<selection, awaiting>>
loop == <<runpc, failures>>
history == <<listing, added, deleted>>

NoCall ==
    [op |-> "none", chat_id |-> 0, token |-> <<>>, index |-> 0,
     before |-> [c \in ChatIds |-> NoDoc], prev |-> Null,
     ret |-> <<>>, raised |-> "none", failed |-> FALSE,
     modified_count |-> 0, updates |-> 0,
     text |-> <<>>, reply |-> Null, requests |-> 0, value |-> Null,
     sent |-> <<>>]

Init ==
    /\ store = [c \in ChatIds |-> NoDoc]
    /\ clock = 0
    /\ pc = [p \in Procs |-> "idle"]
    /\ call = [p \in Procs |-> NoCall]
    /\ selection = [c \in ChatIds |-> Null]
    /\ awaiting = [c \in ChatIds |-> FALSE]
    /\ runpc = "polling"
    /\ failures = 0
    /\ listing = [p \in Procs |-> Null]
    /\ added = <<>>
    /\ deleted = 0

\* datetime.utcnow() advances between calls
Tick ==
    /\ clock < MaxClock
    /\ clock' = clock + 1
    /\ UNCHANGED <<store, pc, call>>

\* load_tokens(chat_id); prev remembers the call this one follows
load_tokens(p, chat_id, o) ==
    /\ pc[p] = "idle"
    /\ call' = [call EXCEPT ![p] =
           [NoCall EXCEPT !.op = "load_tokens", !.chat_id = chat_id,
                          !.before = store,
                          !.prev = Some([call[p] EXCEPT !.prev = Null]),
                          !.failed = (o.exc # "none"),
                          !.ret = IF o.exc = "none"
                                  THEN FindTokens(store[chat_id])
                                  ELSE <<>>,
                          !.raised = Propagates(o.exc, "PyMongoError")]]
    /\ UNCHANGED <<store, clock, pc>>

\* save_token(chat_id, token)
save_token(p, chat_id, token, o) ==
    /\ pc[p] = "idle"
    /\ StoredTokens(store, ChatIds) < MaxLen
    /\ store' = IF o.applied
                THEN [store EXCEPT ![chat_id] = PushUpsert(@, token, clock)]
                ELSE store
    /\ call' = [call EXCEPT ![p] =
           [NoCall EXCEPT !.op = "save_token", !.chat_id = chat_id,
                          !.token = token, !.before = store,
                          !.failed = (o.exc # "none"),
                          !.updates = 1,
                          !.raised = Propagates(o.exc, "PyMongoError")]]
    /\ UNCHANGED <<clock, pc>>

\* delete_token(chat_id, token_index), first update_one ($unset) and the
\* test of modified_count
delete_token_unset(p, chat_id, token_index, o) ==
    /\ pc[p] = "idle"
    /\ LET new == IF o.applied THEN UnsetBoth(store[chat_id], token_index)
                               ELSE store[chat_id]
           mc == ModifiedCount(store[chat_id], new)
       IN /\ store' = [store EXCEPT ![chat_id] = new]
          /\ call' = [call EXCEPT ![p] =
                 [NoCall EXCEPT !.op = "delete_token", !.chat_id = chat_id,
                                !.index = token_index, !.before = store,
                                !.failed = (o.exc # "none"),
                                !.modified_count =
                                    IF o.exc = "none" THEN mc ELSE 0,
                                !.updates = 1,
                                !.raised = Propagates(o.exc, "PyMongoError")]]
          /\ pc' = [pc EXCEPT ![p] =
                 IF o.exc = "none" /\ mc > 0 THEN "delete_pull" ELSE "idle"]
    /\ UNCHANGED clock

\* delete_token, second update_one ($pull)
delete_token_pull(p, o) ==
    /\ pc[p] = "delete_pull"
    /\ LET chat_id == call[p].chat_id
       IN store' = IF o.applied
                   THEN [store EXCEPT ![chat_id] = PullBoth(@)]
                   ELSE store
    /\ call' = [call EXCEPT ![p].updates = 2,
                            ![p].failed = (o.exc # "none"),
                            ![p].raised = Propagates(o.exc, "PyMongoError")]
    /\ pc' = [pc EXCEPT ![p] = "idle"]
    /\ UNCHANGED clock

\* get_codespaces_list(github_token)
get_codespaces_list(p, github_token, reply, jsonError) ==
    /\ pc[p] = "idle"
    /\ LET r == GetCodespacesList(reply, jsonError)
       IN call' = [call EXCEPT ![p] =
              [NoCall EXCEPT !.op = "get_codespaces_list",
                             !.token = github_token,
                             !.reply = Some(reply), !.requests = 1,
                             !.value = r.value, !.raised = r.raised]]
    /\ UNCHANGED <<store, clock, pc>>

\* toggle_codespace(github_token, codespace_name, action)
toggle_codespace(p, github_token, codespace_name, action, reply) ==
    /\ pc[p] = "idle"
    /\ LET r == ToggleCodespace(reply)
       IN call' = [call EXCEPT ![p] =
              [NoCall EXCEPT !.op = "toggle_codespace",
                             !.token = github_token,
                             !.text = <<codespace_name, action>>,
                             !.reply = Some(reply), !.requests = 1,
                             !.value = Some(r.value), !.raised = r.raised]]
    /\ UNCHANGED <<store, clock, pc>>

\* handle_token(message) up to the test of test_response
handle_token_validate(p, chat_id, text, user_name, reply, jsonError) ==
    /\ pc[p] = "idle"
    /\ StoredTokens(store, ChatIds) < MaxLen
    /\ LET github_token == Strip(text)
           test_response == GetCodespacesList(reply, jsonError)
           rejected == test_response.raised = "none"
                          /\ IsRejected(test_response.value)
       IN /\ call' = [call EXCEPT ![p] =
                 [NoCall EXCEPT !.op = "handle_token", !.chat_id = chat_id,
                                !.text = text, !.token = github_token,
                                !.before = store, !.requests = 1,
                                !.value = test_response.value,
                                !.raised = test_response.raised,
                                !.sent = IF rejected
                                         THEN <<<<chat_id, "invalid_token">>>>
                                         ELSE <<>>]]
          /\ pc' = [pc EXCEPT ![p] =
                 IF test_response.raised = "none" /\ ~rejected
                 THEN "handle_token_save" ELSE "idle"]
    /\ UNCHANGED <<store, clock>>

\* handle_token from save_token on: the channel message, the reply and the
\* call of update_codespaces, a method the class does not define
handle_token_save(p, o) ==
    /\ pc[p] = "handle_token_save"
    /\ LET chat_id == call[p].chat_id
       IN store' = IF o.applied
                   THEN [store EXCEPT
                            ![chat_id] = PushUpsert(@, call[p].token, clock)]
                   ELSE store
    /\ call' = [call EXCEPT
           ![p].updates = 1,
           ![p].failed = (o.exc # "none"),
           ![p].sent = IF Propagates(o.exc, "PyMongoError") = "none"
                       THEN <<<<"channel", "new_token_added">>,
                              <<call[p].chat_id, "added_successfully">>>>
                       ELSE <<>>,
           ![p].raised = IF Propagates(o.exc, "PyMongoError") = "none"
                         THEN "AttributeError"
                         ELSE Propagates(o.exc, "PyMongoError")]
    /\ pc' = [pc EXCEPT ![p] = "idle"]
    /\ UNCHANGED clock

\* ------------------------------------------------------ Session Selection
\* select(chat_id, environment_name): overwrites the chat's selection
SelectEnvironment(sel, chat_id, name) == [sel EXCEPT ![chat_id] = Some(name)]

\* a toggle that drops the selection once it succeeded
SelectionAfterToggle_clear(sel, chat_id, success) ==
    IF success THEN [sel EXCEPT ![chat_id] = Null] ELSE sel

\* the selection a toggle leaves behind: no invalidation
SelectionAfterToggle(sel, chat_id, success) == sel

\* the chat picks an environment from a listing
handle_selected_token(p, chat_id, name) ==
    /\ pc[p] = "idle"
    /\ selection' = SelectEnvironment(selection, chat_id, name)
    /\ call' = [call EXCEPT ![p] =
           [NoCall EXCEPT !.op = "handle_selected_token",
                          !.chat_id = chat_id, !.text = <<name>>]]
    /\ UNCHANGED <<store, clock, pc, awaiting, loop, history>>

\* the chat asks to start or stop its selected environment: the selection
\* and a stored credential are resolved, then toggle_codespace is called
handle_toggle_codespace(p, chat_id, k, action, reply) ==
    /\ pc[p] = "idle"
    /\ selection[chat_id] # Null
    /\ k \in DOMAIN store[chat_id].tokens
    /\ store[chat_id].tokens[k] # Null
    /\ LET r == ToggleCodespace(reply)
       IN /\ call' = [call EXCEPT ![p] =
                 [NoCall EXCEPT !.op = "handle_toggle_codespace",
                                !.chat_id = chat_id,
                                !.token = store[chat_id].tokens[k][1],
                                !.text = <<selection[chat_id][1], action>>,
                                !.reply = Some(reply), !.requests = 1,
                                !.value = Some(r.value),
                                !.raised = r.raised]]
          /\ selection' = SelectionAfterToggle(selection, chat_id, r.value)
    /\ UNCHANGED <<store, clock, pc, awaiting, loop, history>>

\* toggle_codespace reads the status only: one body per status is enough
ToggleReplies == {r \in Replies : r.body = "not_json"}

\* Chats add credentials, select environments and toggle them.
SessionNext ==
    \/ /\ \E c \in ChatIds, t \in Credentials :
              save_token(MainProc, c, t, StoreOk)
       /\ UNCHANGED <<session, loop, history>>
    \/ \E c \in ChatIds, n \in CodespaceNames :
           handle_selected_token(MainProc, c, n)
    \/ \E c \in ChatIds, k \in 1..MaxLen, a \in Actions,
          r \in ToggleReplies :
           handle_toggle_codespace(MainProc, c, k, a, r)

SessionSpec == Init /\ [][SessionNext]_vars

\* ------------------------------------------------- dispatch and run loop
StartCommand == <<"/", "s", "t", "a", "r", "t">>

RunTexts == {<<"a">>, <<"b", " ">>, StartCommand,
             StartCommand \o <<" ", "a">>, <<"/", "a">>}

\* message_handler(commands=['start']): the text begins with "/" and its
\* first word, up to an "@", is "/start"
IsStartCommand(text) ==
    /\ Len(text) >= Len(StartCommand)
    /\ SubSeq(text, 1, Len(StartCommand)) = StartCommand
    /\ Len(text) > Len(StartCommand) =>
           text[Len(StartCommand) + 1] \in Whitespace \cup {"@"}

\* a handler that takes free text only from a chat asked for a credential
Route_awaiting(text, awaits) ==
    IF IsStartCommand(text) THEN "welcome"
    ELSE IF awaits THEN "handle_token" ELSE "ignored"

\* setup_handlers: the message handlers are tried in the order registered,
\* welcome for /start, then handle_token for func=lambda message: True
Route(text, awaits) ==
    IF IsStartCommand(text) THEN "welcome" ELSE "handle_token"

\* add_token: the chat is asked to send a credential
add_token(p, chat_id) ==
    /\ runpc = "polling"
    /\ pc[p] = "idle"
    /\ call' = [call EXCEPT ![p] =
           [NoCall EXCEPT !.op = "add_token", !.chat_id = chat_id,
                          !.sent = <<<<chat_id, "send_me_your_token">>>>]]
    /\ awaiting' = [awaiting EXCEPT ![chat_id] = TRUE]
    /\ UNCHANGED <<store, clock, pc, selection, loop, history>>

\* welcome
welcome(p, chat_id, text) ==
    /\ call' = [call EXCEPT ![p] =
           [NoCall EXCEPT !.op = "welcome", !.chat_id = chat_id,
                          !.text = text,
                          !.sent = <<<<chat_id, "welcome">>>>]]
    /\ awaiting' = [awaiting EXCEPT ![chat_id] = FALSE]
    /\ UNCHANGED <<store, clock, pc, selection, loop, history>>

\* a text message arrives while the bot is polling
on_message(p, chat_id, text, user_name, reply, jsonError) ==
    /\ runpc = "polling"
    /\ pc[p] = "idle"
    /\ LET handler == Route(text, awaiting[chat_id])
       IN \/ /\ handler = "welcome"
             /\ welcome(p, chat_id, text)
          \/ /\ handler = "handle_token"
             /\ handle_token_validate(p, chat_id, text, user_name, reply,
                                      jsonError)
             /\ UNCHANGED <<session, loop, history>>
          \/ /\ handler = "ignored"
             /\ call' = [call EXCEPT ![p] =
                    [NoCall EXCEPT !.op = "ignored", !.chat_id = chat_id,
                                   !.text = text]]
             /\ UNCHANGED <<store, clock, pc, session, loop, history>>

\* the handler of an accepted credential goes on
on_message_save(p) ==
    /\ handle_token_save(p, StoreOk)
    /\ awaiting' = [awaiting EXCEPT ![call[p].chat_id] = FALSE]
    /\ UNCHANGED <<selection, loop, history>>

\* what bot.polling raises: transport errors, or the error of a handler
PollErrors == {"ConnectionError", "Timeout", "AttributeError"}

\* a loop that gives up after two failures
RunAfterError_maxRetries(exc, failed) ==
    IF failed >= MaxFailures - 1 THEN "stopped" ELSE "backoff"

\* run: "except Exception" then time.sleep(15), inside "while True"
RunAfterError(exc, failed) ==
    IF Propagates(exc, "Exception") = "none" THEN "backoff" ELSE "stopped"

\* run: self.bot.polling raises
run_polling_fails(exc) ==
    /\ runpc = "polling"
    /\ failures < MaxFailures
    /\ runpc' = RunAfterError(exc, failures)
    /\ failures' = failures + 1
    /\ UNCHANGED <<store, clock, pc, call, session, history>>

\* run: time.sleep(15) returns and the loop starts polling again
run_backoff_done ==
    /\ runpc = "backoff"
    /\ runpc' = "polling"
    /\ UNCHANGED <<store, clock, pc, call, session, failures, history>>

RunReplies ==
    {r \in Replies : /\ r.status \in {200, 401}
                     /\ r.body \in {"codespaces_empty", "json_array"}}

\* The process: run() polls, messages and button presses are dispatched.
RunNext ==
    \/ \E c \in ChatIds : add_token(MainProc, c)
    \/ \E c \in ChatIds, t \in RunTexts, u \in UserNames, r \in RunReplies :
           on_message(MainProc, c, t, u, r, "RequestsJSONDecodeError")
    \/ on_message_save(MainProc)
    \/ \E e \in PollErrors : run_polling_fails(e)
    \/ run_backoff_done

RunSpec == Init /\ [][RunNext]_vars

\* time.sleep(15) returns
RunFairSpec == RunSpec /\ WF_vars(run_backoff_done)

\* ------------------------------------------------------ concurrent callers
\* save_token by caller p, remembered in added
logged_save(p, chat_id, token) ==
    /\ save_token(p, chat_id, token, StoreOk)
    /\ added' = Append(added,
                       [chat_id |-> chat_id, token |-> token, ts |-> clock])
    /\ UNCHANGED <<session, loop, listing, deleted>>

\* Handler threads saving at the same time, for the same or different chats.
SaveRaceNext ==
    \/ Tick /\ UNCHANGED <<session, loop, history>>
    \/ \E p \in Procs, c \in ChatIds, t \in Credentials : logged_save(p, c, t)

SaveRaceSpec == Init /\ [][SaveRaceNext]_vars

\* One caller, the store always answers.
Next ==
    \/ Tick /\ UNCHANGED <<session, loop, history>>
    \/ /\ \E c \in ChatIds : load_tokens(MainProc, c, StoreOk)
       /\ UNCHANGED <<session, loop, history>>
    \/ /\ \E c \in ChatIds, t \in Credentials :
              save_token(MainProc, c, t, StoreOk)
       /\ UNCHANGED <<session, loop, history>>
    \/ /\ \E c \in ChatIds, i \in Indexes :
              delete_token_unset(MainProc, c, i, StoreOk)
       /\ UNCHANGED <<session, loop, history>>
    \/ delete_token_pull(MainProc, StoreOk)
          /\ UNCHANGED <<session, loop, history>>

Spec == Init /\ [][Next]_vars

\* One caller, every round trip to the store may fail.
StoreOutcomes == {StoreOk} \cup StoreFaults

FaultChats == {42}

FaultNext ==
    \/ Tick /\ UNCHANGED <<session, loop, history>>
    \/ /\ \E c \in FaultChats, o \in StoreOutcomes :
              load_tokens(MainProc, c, o)
       /\ UNCHANGED <<session, loop, history>>
    \/ /\ \E c \in FaultChats, t \in Credentials, o \in StoreOutcomes :
              save_token(MainProc, c, t, o)
       /\ UNCHANGED <<session, loop, history>>
    \/ /\ \E c \in FaultChats, i \in Indexes, o \in StoreOutcomes :
              delete_token_unset(MainProc, c, i, o)
       /\ UNCHANGED <<session, loop, history>>
    \/ /\ \E o \in StoreOutcomes : delete_token_pull(MainProc, o)
       /\ UNCHANGED <<session, loop, history>>

FaultSpec == Init /\ [][FaultNext]_vars

\* The GitHub client alone, against every upstream reply.
ClientNext ==
    \/ /\ \E t \in Credentials, r \in Replies, j \in JSONErrors :
              get_codespaces_list(MainProc, t, r, j)
       /\ UNCHANGED <<session, loop, history>>
    \/ /\ \E t \in Credentials, n \in CodespaceNames, a \in Actions,
             r \in Replies :
              toggle_codespace(MainProc, t, n, a, r)
       /\ UNCHANGED <<session, loop, history>>

ClientSpec == Init /\ [][ClientNext]_vars

\* Free-text messages of the chats, handled one at a time.
BotReplies == {r \in Replies : r.status \in {0, 200, 300, 401}}

BotNext ==
    \/ /\ \E c \in ChatIds, t \in Texts, u \in UserNames, r \in BotReplies,
             j \in JSONErrors :
              handle_token_validate(MainProc, c, t, u, r, j)
       /\ UNCHANGED <<session, loop, history>>
    \/ handle_token_save(MainProc, StoreOk)
          /\ UNCHANGED <<session, loop, history>>

BotSpec == Init /\ [][BotNext]_vars

\* ------------------------------------------------------ credential store
Last(s) == s[Len(s)]

\* s without its element at 0-based position i
RemoveAt(s, i) == [k \in 1..(Len(s) - 1) |-> IF k <= i THEN s[k] ELSE s[k + 1]]

HasNull(s) == \E k \in DOMAIN s : s[k] = Null

Finished(p, op) == pc[p] = "idle" /\ call[p].op = op

\* the call that load_tokens by MainProc directly follows
Followed == call[MainProc].prev[1]
LoadFollows(op) ==
    /\ Finished(MainProc, "load_tokens")
    /\ call[MainProc].prev # Null
    /\ Followed.op = op
    /\ Followed.chat_id = call[MainProc].chat_id

\* C1: in every reachable state, also between the $unset and the $pull of
\* delete_token, every record has as many tokens as timestamps.
C1_LengthInvariant ==
    \A c \in ChatIds :
        store[c].present => Len(store[c].tokens) = Len(store[c].timestamps)

C1_Witness ==
    /\ pc[MainProc] = "delete_pull"
    /\ HasNull(store[call[MainProc].chat_id].tokens)
    /\ Len(store[call[MainProc].chat_id].tokens) = MaxLen

\* C2: load_tokens right after save_token(chat_id, credential) returns a
\* sequence whose last element is the credential, whether or not the record
\* existed before, and tokens and timestamps have equal length.
C2_SaveThenLoad ==
    LoadFollows("save_token") =>
        LET c == call[MainProc].chat_id
            r == call[MainProc].ret
        IN /\ Len(r) > 0
           /\ Last(r) = Some(Followed.token)
           /\ store[c].present
           /\ Len(store[c].tokens) = Len(store[c].timestamps)

C2_Witness ==
    /\ LoadFollows("save_token")
    /\ ~Followed.before[call[MainProc].chat_id].present
    /\ call[MainProc].ret = <<Some(Followed.token)>>

\* C3: load_tokens right after delete_token(chat_id, i) returns no null
\* placeholder, and tokens and timestamps have equal length.
C3_DeleteThenLoadNoNull ==
    LoadFollows("delete_token") =>
        LET c == call[MainProc].chat_id
        IN /\ ~HasNull(call[MainProc].ret)
           /\ ~HasNull(store[c].timestamps)
           /\ Len(store[c].tokens) = Len(store[c].timestamps)

C3_Witness ==
    /\ LoadFollows("delete_token")
    /\ Followed.updates = 2
    /\ Len(call[MainProc].ret) = MaxLen - 1

\* C4: delete_token(chat_id, i) with 0 <= i < n on tokens t[0..n-1] leaves
\* exactly t without position i, order kept, and the timestamps without
\* position i, also when the credential at i occurs elsewhere.
C4_DeleteRemovesExactlyIndex ==
    LoadFollows("delete_token") =>
        LET c == call[MainProc].chat_id
            old == Followed.before[c]
            i == Followed.index
        IN i < Len(old.tokens) =>
              /\ call[MainProc].ret = RemoveAt(old.tokens, i)
              /\ store[c].timestamps = RemoveAt(old.timestamps, i)

C4_Witness ==
    /\ LoadFollows("delete_token")
    /\ Followed.index = 1
    /\ LET old == Followed.before[call[MainProc].chat_id]
       IN /\ Len(old.tokens) = 3
          /\ old.tokens[1] = old.tokens[2]
          /\ old.tokens[3] # old.tokens[2]
          /\ old.timestamps[1] # old.timestamps[2]
          /\ call[MainProc].ret = <<old.tokens[1], old.tokens[3]>>
          /\ store[call[MainProc].chat_id].timestamps
                 = <<old.timestamps[1], old.timestamps[3]>>

\* C5: delete_token with an index past the end of tokens, or for a chat
\* without record, changes nothing in the store, creates no record and
\* issues only the $unset update, which reports no modification.
C5_OutOfRangeDeleteNoOp ==
    LET d == call[MainProc]
    IN (d.op = "delete_token"
          /\ d.index >= Len(d.before[d.chat_id].tokens))
       => /\ pc[MainProc] = "idle"
          /\ store = d.before
          /\ d.modified_count = 0
          /\ d.updates = 1

C5_Witness ==
    /\ Finished(MainProc, "delete_token")
    /\ call[MainProc].index = Len(store[call[MainProc].chat_id].tokens)
    /\ call[MainProc].index > 0

C5_WitnessNoRecord ==
    /\ Finished(MainProc, "delete_token")
    /\ ~store[call[MainProc].chat_id].present

\* ----------------------------------------------------- add-credential flow
ListReturnedNone(p) ==
    /\ call[p].op = "handle_token"
    /\ call[p].raised = "none"
    /\ call[p].value = Null

\* C6: when the list call of handle_token returns None the credential is not
\* persisted: the store is as before for every chat, nothing goes to the
\* channel, and the only message is the invalid-token reply to the sender.
C6_AbsentNeverPersisted ==
    ListReturnedNone(MainProc) =>
        /\ pc[MainProc] = "idle"
        /\ store = call[MainProc].before
        /\ call[MainProc].updates = 0
        /\ call[MainProc].sent = <<<<call[MainProc].chat_id, "invalid_token">>>>

C6_Witness ==
    /\ ListReturnedNone(MainProc)
    /\ pc[MainProc] = "idle"
    /\ store[call[MainProc].chat_id].present
    /\ call[MainProc].sent # <<>>

\* C7: when the list call of handle_token returns a list, empty or not, the
\* stripped text is appended to the sender's record; from no record, a text
\* without surrounding whitespace and an empty list leave tokens == [text].
C7_ValidIsPersisted ==
    LET h == call[MainProc]
    IN (h.op = "handle_token" /\ pc[MainProc] = "idle" /\ h.value # Null) =>
          /\ h.updates = 1
          /\ store[h.chat_id].present
          /\ store[h.chat_id].tokens
                = Append(h.before[h.chat_id].tokens, Some(h.token))
          /\ \A c \in ChatIds \ {h.chat_id} : store[c] = h.before[c]
          /\ (h.text # <<>> /\ Head(h.text) \notin Whitespace
                 /\ Last(h.text) \notin Whitespace) => h.token = h.text

C7_Witness ==
    LET h == call[MainProc]
    IN /\ h.op = "handle_token" /\ pc[MainProc] = "idle"
       /\ h.chat_id = 42
       /\ h.text = <<"a">>
       /\ h.value = Some(<<>>)
       /\ ~h.before[42].present
       /\ store[42].tokens = <<Some(<<"a">>)>>

\* ------------------------------------------------------------ GitHub client
Replied(p) == call[p].reply[1]

Is2xx(reply) ==
    reply.kind = "response" /\ 200 <= reply.status /\ reply.status <= 299

\* C8: toggle_codespace returns True exactly when the upstream answers with a
\* status in 200..299, False for any other status and for transport errors
\* and timeouts, after a single request, and raises nothing.
C8_ToggleTrueIff2xx ==
    call[MainProc].op = "toggle_codespace" =>
        /\ call[MainProc].value = Some(Is2xx(Replied(MainProc)))
        /\ call[MainProc].raised = "none"
        /\ call[MainProc].requests = 1

C8_Witness ==
    /\ call[MainProc].op = "toggle_codespace"
    /\ Replied(MainProc).kind = "response"
    /\ Replied(MainProc).status = 299
    /\ call[MainProc].value = Some(TRUE)

C8_WitnessFalse ==
    /\ call[MainProc].op = "toggle_codespace"
    /\ Replied(MainProc).kind = "response"
    /\ Replied(MainProc).status \in {199, 300}
    /\ call[MainProc].value = Some(FALSE)

\* the payload is not {codespaces: [...]}: no JSON, no object, no list
Malformed(body) == body \in {"not_json", "json_array", "codespaces_null"}

UpstreamFailed(reply) == ~Is2xx(reply) \/ Malformed(reply.body)

\* C9: get_codespaces_list returns None whenever the upstream call ends in a
\* transport error, a timeout, a non-2xx status or a malformed payload, and a
\* list (the empty one for zero environments) otherwise, and raises nothing.
C9_ListAbsentIffFailure ==
    call[MainProc].op = "get_codespaces_list" =>
        /\ call[MainProc].raised = "none"
        /\ (call[MainProc].value = Null) <=> UpstreamFailed(Replied(MainProc))

\* ---------------------------------------------------------- store failures
\* C10: a storage failure inside load_tokens, save_token or delete_token is
\* caught: load_tokens returns [] (as it does when no record exists), the
\* other two return, and none of the three raises.
C10_StoreFailuresCaught ==
    LET s == call[MainProc]
    IN /\ s.raised = "none"
       /\ (s.op = "load_tokens" /\ s.failed) => s.ret = <<>>
       /\ (s.op = "load_tokens" /\ ~s.before[s.chat_id].present) => s.ret = <<>>
       /\ s.failed => pc[MainProc] = "idle"

C10_Witness ==
    LET s == call[MainProc]
    IN /\ s.op = "load_tokens" /\ s.failed
       /\ Len(store[s.chat_id].tokens) = MaxLen
       /\ s.ret = <<>>

C10_WitnessDelete ==
    LET s == call[MainProc]
    IN /\ s.op = "delete_token" /\ s.failed /\ s.updates = 2
       /\ pc[MainProc] = "idle"

\* -------------------------------------------------------- session selection
ToggleStep ==
    /\ call'[MainProc] # call[MainProc]
    /\ call'[MainProc].op = "handle_toggle_codespace"

SelectStep(c) ==
    /\ call'[MainProc].op = "handle_selected_token"
    /\ call'[MainProc].chat_id = c
    /\ selection'[c] = Some(call'[MainProc].text[1])

\* C11: a toggle, successful or not, leaves the selection of every chat as
\* it was; the selection of a chat changes only when that chat selects.
C11_ToggleKeepsSelection ==
    [][/\ ToggleStep => selection' = selection
       /\ \A c \in ChatIds : selection'[c] # selection[c] => SelectStep(c)]_vars

C11_Witness ==
    LET t == call[MainProc]
    IN /\ t.op = "handle_toggle_codespace"
       /\ t.chat_id = 42
       /\ t.text = <<"env-1", "stop">>
       /\ Replied(MainProc).kind = "response"
       /\ Replied(MainProc).status = 204
       /\ t.value = Some(TRUE)
       /\ selection[42] = Some("env-1")
       /\ selection[7] = Some("env-2")

\* --------------------------------------------------------- concurrent saves
AddedTo(c) == SelectSeq(added, LAMBDA e : e.chat_id = c)

\* C12: however save_token calls of several callers interleave, the record
\* of a chat holds exactly the credentials saved for it, once per call and
\* in the order of the updates, each with the timestamp of the same call.
C12_ConcurrentSavesPaired ==
    \A c \in ChatIds :
        LET a == AddedTo(c)
        IN /\ store[c].present <=> a # <<>>
           /\ store[c].tokens = [k \in 1..Len(a) |-> Some(a[k].token)]
           /\ store[c].timestamps = [k \in 1..Len(a) |-> Some(a[k].ts)]

C12_Witness ==
    /\ \A p \in Procs : call[p].op = "save_token" /\ call[p].chat_id = 42
    /\ Len(store[42].tokens) = MaxLen
    /\ store[42].tokens[MaxLen - 1] = store[42].tokens[MaxLen]
    /\ store[42].timestamps[MaxLen - 1] # store[42].timestamps[MaxLen]

\* ------------------------------------------------------- record lifetime
LastTokenDeleted ==
    LET d == call[MainProc]
    IN /\ Finished(MainProc, "delete_token")
       /\ Len(d.before[d.chat_id].tokens) = 1
       /\ d.index = 0

EmptyRecord(doc) ==
    doc.present /\ doc.tokens = <<>> /\ doc.timestamps = <<>>

\* C13: a record that exists keeps existing through every save_token and
\* delete_token step, and deleting the last token of a chat leaves a record
\* with empty tokens and timestamps.
C13_RecordNeverDestroyed ==
    /\ [][\A c \in ChatIds : store[c].present => store'[c].present]_vars
    /\ [](LastTokenDeleted => EmptyRecord(store[call[MainProc].chat_id]))

C13_Witness ==
    /\ LastTokenDeleted
    /\ call[MainProc].updates = 2
    /\ EmptyRecord(store[call[MainProc].chat_id])

\* ------------------------------------------------------------ store faults
\* One chat message at a time, every round trip to the store may fail.
FaultBotNext ==
    \/ /\ \E c \in ChatIds, t \in Texts, u \in UserNames, r \in RunReplies :
              handle_token_validate(MainProc, c, t, u, r,
                                    "RequestsJSONDecodeError")
       /\ UNCHANGED <<session, loop, history>>
    \/ /\ \E o \in StoreOutcomes : handle_token_save(MainProc, o)
       /\ UNCHANGED <<session, loop, history>>

FaultBotSpec == Init /\ [][FaultBotNext]_vars

\* ------------------------------------------------- racing on one record
RaceChat == 42

\* the caller lists the chat's tokens (show_tokens, delete_token_handler)
race_list(p) ==
    /\ call[p].op # "load_tokens"
    /\ load_tokens(p, RaceChat, StoreOk)
    /\ listing' = [listing EXCEPT ![p] =
           Some([tokens |-> FindTokens(store[RaceChat]),
                 at |-> Len(added), dels |-> deleted])]
    /\ UNCHANGED <<session, loop, added, deleted>>

\* the caller adds a credential
race_save(p, token) ==
    /\ Len(added) < MaxLen
    /\ logged_save(p, RaceChat, token)

\* the caller deletes a position of what it listed: first update
race_unset(p, token_index) ==
    /\ listing[p] # Null
    /\ call[p].op = "load_tokens"
    /\ token_index < Len(listing[p][1].tokens)
    /\ deleted < MaxLen - 1
    /\ delete_token_unset(p, RaceChat, token_index, StoreOk)
    /\ deleted' = deleted + 1
    /\ UNCHANGED <<session, loop, listing, added>>

\* second update of the delete
race_pull(p) ==
    /\ delete_token_pull(p, StoreOk)
    /\ UNCHANGED <<session, loop, history>>

\* Two handler threads on the record of one chat.
RaceNext ==
    \/ \E p \in Procs : race_list(p)
    \/ \E p \in Procs, t \in Credentials : race_save(p, t)
    \/ \E p \in Procs, i \in Indexes : race_unset(p, i)
    \/ \E p \in Procs : race_pull(p)

RaceSpec == Init /\ [][RaceNext]_vars

\* C16: once handle_token has sent the channel message and the "added
\* successfully" reply, the credential is in the record of the chat, also
\* when the store failed during save_token.
C16_SuccessReplyMeansStored ==
    LET m == call[MainProc]
    IN (Finished(MainProc, "handle_token")
           /\ \E k \in DOMAIN m.sent : m.sent[k][2] = "new_token_added"
           /\ Last(m.sent)[2] = "added_successfully")
       => \E n \in DOMAIN FindTokens(store[m.chat_id]) :
             FindTokens(store[m.chat_id])[n] = Some(m.token)

\* C17: a load_tokens racing with a delete_token of the same chat never
\* returns a null placeholder.
C17_LoadNeverSeesNull ==
    \A p \in Procs :
       Finished(p, "load_tokens") => ~HasNull(call[p].ret)

\* C18: when delete_token has returned after a failure of the store, neither
\* array holds a null placeholder.
C18_FailedDeleteLeavesNoNull ==
    (Finished(MainProc, "delete_token") /\ call[MainProc].failed)
       => LET doc == store[call[MainProc].chat_id]
          IN ~HasNull(doc.tokens) /\ ~HasNull(doc.timestamps)

\* the tokens pushed to the raced record after the first n pushes
AddedSince(n) ==
    LET a == AddedTo(RaceChat)
    IN [k \in 1..(Len(a) - n) |-> Some(a[n + k].token)]

\* caller p has deleted a position of a null-free listing, and no other
\* delete began since that listing
DeletedAlone(p) ==
    /\ Finished(p, "delete_token")
    /\ listing[p] # Null
    /\ ~HasNull(listing[p][1].tokens)
    /\ deleted = listing[p][1].dels + 1

\* C19: a delete of a listed position, racing with saves only, removes the
\* credential listed at that position and nothing else; every credential
\* saved since the listing follows, in order.
C19_DeleteListedIndexUnderSaves ==
    \A p \in Procs :
       DeletedAlone(p) =>
          LET L == listing[p][1]
          IN store[RaceChat].tokens =
                RemoveAt(L.tokens, call[p].index) \o AddedSince(L.at)

C19_Witness ==
    \E p \in Procs :
       /\ DeletedAlone(p)
       /\ call[p].index = 0
       /\ Len(listing[p][1].tokens) = 2
       /\ listing[p][1].tokens[1] # listing[p][1].tokens[2]
       /\ Len(AddedSince(listing[p][1].at)) = 1
       /\ call[p].before[RaceChat].tokens # listing[p][1].tokens
       /\ \A q \in Procs \ {p} : Finished(q, "save_token")

\* s without the elements at the 1-based positions in gone
Without(s, gone) ==
    LET kept == SelectSeq([k \in 1..Len(s) |-> k], LAMBDA k : k \notin gone)
    IN [n \in 1..Len(kept) |-> s[kept[n]]]

\* C20: two deletes of distinct positions of one listing remove the two
\* credentials listed there and no other.
C20_TwoDeletesRemoveListed ==
    (/\ \A p \in Procs : Finished(p, "delete_token") /\ listing[p] # Null
     /\ \A p, q \in Procs : listing[p] = listing[q]
     /\ \A p, q \in Procs : p # q => call[p].index # call[q].index
     /\ \A p \in Procs : /\ ~HasNull(listing[p][1].tokens)
                          /\ deleted = listing[p][1].dels + Cardinality(Procs)
                          /\ Len(added) = listing[p][1].at)
    => store[RaceChat].tokens =
          Without(listing[MainProc][1].tokens,
                  {call[p].index + 1 : p \in Procs})

\* ------------------------------------------------------------------ routing
Dispatched(p) == call[p].op \in {"welcome", "handle_token", "ignored"}

\* C14: a text message that is not the /start command goes to handle_token
\* and costs one upstream request, whether or not the chat was asked for a
\* credential; the /start command goes to welcome.
C14_FreeTextToHandleToken ==
    LET m == call[MainProc]
    IN Dispatched(MainProc) =>
          IF IsStartCommand(m.text)
          THEN m.op = "welcome"
          ELSE m.op = "handle_token" /\ m.requests = 1

C14_Witness ==
    /\ ListReturnedNone(MainProc)
    /\ pc[MainProc] = "idle"
    /\ call[MainProc].text = <<"/", "a">>
    /\ ~awaiting[call[MainProc].chat_id]
    /\ awaiting[CHOOSE c \in ChatIds : c # call[MainProc].chat_id]

\* ----------------------------------------------------------------- run loop
\* C15: run() never leaves its loop, and after every polling failure, however
\* many came before, the backoff ends and polling starts again.
C15_RunRestartsForever ==
    /\ [](runpc \in {"polling", "backoff"})
    /\ (runpc = "backoff") ~> (runpc = "polling")

C15_Witness ==
    /\ failures = MaxFailures
    /\ runpc = "polling"

====
